---- MODULE Spec2Model ----
(***************************************************************************)
(* Model of src/index.js: the action that reads a Gradle build file,       *)
(* locates versionCode and versionName with two regular expressions,       *)
(* resolves their final values from the four inputs and rewrites the file. *)
(*                                                                         *)
(* A JavaScript string is a sequence of one-character strings.  A          *)
(* JavaScript number is a record [nan, v]: NaN is [nan |-> TRUE, v |-> 0]. *)
(* Numbers stay far below 2^53, so double arithmetic is exact here.        *)
(***************************************************************************)
EXTENDS Integers, Sequences, FiniteSets

(* ------------------------------------------------------------------ *)
(* Bounds of the model                                                 *)
(* ------------------------------------------------------------------ *)

\* counters 0..MaxCode appear as the versionCode value of the build file
MaxCode == 1
\* components 0..MaxVer appear in the versionName value of the build file
MaxVer == 1

(* ------------------------------------------------------------------ *)
(* Characters                                                          *)
(* ------------------------------------------------------------------ *)

DigitChars == <<"0", "1", "2", "3", "4", "5", "6", "7", "8", "9">>
HexChars == DigitChars \o <<"a", "b", "c", "d", "e", "f">>
HexUpper == DigitChars \o <<"A", "B", "C", "D", "E", "F">>
UpperChars == <<"A", "B", "C", "D", "E", "F", "G", "H", "I", "J", "K", "L", "M",
                "N", "O", "P", "Q", "R", "S", "T", "U", "V", "W", "X", "Y", "Z">>
LowerChars == <<"a", "b", "c", "d", "e", "f", "g", "h", "i", "j", "k", "l", "m",
                "n", "o", "p", "q", "r", "s", "t", "u", "v", "w", "x", "y", "z">>

Range(s) == {s[i] : i \in DOMAIN s}
IsDigit(c) == c \in Range(DigitChars)
IsHexDigit(c) == c \in Range(HexChars) \cup Range(HexUpper)
DigitVal(c) == (CHOOSE i \in DOMAIN DigitChars : DigitChars[i] = c) - 1
HexVal(c) ==
    IF c \in Range(HexChars)
    THEN (CHOOSE i \in DOMAIN HexChars : HexChars[i] = c) - 1
    ELSE (CHOOSE i \in DOMAIN HexUpper : HexUpper[i] = c) - 1

\* what \s and String.prototype.trim treat as white space, within the alphabet
WhiteSpace == {" ", "\t", "\n", "\r", "\f"}
\* what . does not match
LineTerminators == {"\n", "\r"}

(* ------------------------------------------------------------------ *)
(* Numbers                                                             *)
(* ------------------------------------------------------------------ *)

Num(n) == [nan |-> FALSE, v |-> n]
NaN == [nan |-> TRUE, v |-> 0]
\* a comparison with NaN, which no number satisfies
IsNaN_Never(x) == FALSE
\* isNaN
IsNaN(x) == x.nan
\* a + b on numbers
NumAdd(a, b) == IF a.nan \/ b.nan THEN NaN ELSE Num(a.v + b.v)

RECURSIVE NatToString(_)
NatToString(n) ==
    IF n < 10 THEN <<DigitChars[n + 1]>>
    ELSE NatToString(n \div 10) \o <<DigitChars[(n % 10) + 1]>>

\* Number::toString, as a template literal applies it
NumberToString(x) ==
    IF x.nan THEN <<"N", "a", "N">>
    ELSE IF x.v < 0 THEN <<"-">> \o NatToString(0 - x.v)
    ELSE NatToString(x.v)

(* ------------------------------------------------------------------ *)
(* String methods                                                      *)
(* ------------------------------------------------------------------ *)

Drop(s, n) == SubSeq(s, n + 1, Len(s))
Take(s, n) == SubSeq(s, 1, n)

\* String.prototype.trim
Trim(s) ==
    LET keep == {i \in DOMAIN s : s[i] \notin WhiteSpace}
    IN  IF keep = {} THEN <<>>
        ELSE LET lo == CHOOSE i \in keep : \A j \in keep : i <= j
                 hi == CHOOSE i \in keep : \A j \in keep : j <= i
             IN  SubSeq(s, lo, hi)

\* s.replace(/c/g, empty string) for a one-character pattern c
RemoveAll(s, c) == SelectSeq(s, LAMBDA x : x # c)

\* String.prototype.toLowerCase
ToLowerChar(c) ==
    IF c \in Range(UpperChars)
    THEN LowerChars[CHOOSE i \in DOMAIN UpperChars : UpperChars[i] = c]
    ELSE c
ToLowerCase(s) == [i \in DOMAIN s |-> ToLowerChar(s[i])]

\* the length of the longest prefix of s whose characters are all in set
SpanLen(s, set) ==
    LET stops == {i \in DOMAIN s : s[i] \notin set}
    IN  IF stops = {} THEN Len(s)
        ELSE (CHOOSE i \in stops : \A j \in stops : i <= j) - 1

\* the value of a digit string in the given radix, most significant first
RECURSIVE DigitsValue(_, _)
DigitsValue(s, radix) ==
    IF s = <<>> THEN 0
    ELSE DigitsValue(Take(s, Len(s) - 1), radix) * radix + HexVal(s[Len(s)])

HasHexPrefix(s) == Len(s) >= 2 /\ s[1] = "0" /\ s[2] \in {"x", "X"}

\* parseInt(s) with no radix: leading white space, a sign, 0x for radix 16,
\* then the longest run of digits; what follows the digits is ignored
ParseInt(s) ==
    LET t    == Drop(s, SpanLen(s, WhiteSpace))
        neg  == t # <<>> /\ t[1] = "-"
        u    == IF t # <<>> /\ t[1] \in {"+", "-"} THEN Drop(t, 1) ELSE t
        hex  == HasHexPrefix(u)
        body == IF hex THEN Drop(u, 2) ELSE u
        n    == IF hex THEN SpanLen(body, Range(HexChars) \cup Range(HexUpper))
                ELSE SpanLen(body, Range(DigitChars))
        mag  == DigitsValue(Take(body, n), IF hex THEN 16 ELSE 10)
    IN  IF n = 0 THEN NaN ELSE Num(IF neg THEN 0 - mag ELSE mag)

\* Number(s), StringToNumber: white space trimmed, the empty string is 0,
\* a signed decimal digit string or an unsigned 0x literal is its value,
\* anything else is NaN.  (No fraction occurs after the split on the dot; exponent,
\* Infinity, 0b and 0o literals are not written with the alphabet of the model.)
StringToNumber(s) ==
    LET t   == Trim(s)
        neg == t # <<>> /\ t[1] = "-"
        u   == IF t # <<>> /\ t[1] \in {"+", "-"} THEN Drop(t, 1) ELSE t
    IN  IF t = <<>> THEN Num(0)
        ELSE IF HasHexPrefix(t)
        THEN IF Len(t) > 2 /\ \A i \in 3..Len(t) : IsHexDigit(t[i])
             THEN Num(DigitsValue(Drop(t, 2), 16)) ELSE NaN
        ELSE IF u # <<>> /\ \A i \in DOMAIN u : IsDigit(u[i])
        THEN Num(IF neg THEN 0 - DigitsValue(u, 10) ELSE DigitsValue(u, 10))
        ELSE NaN

\* String.prototype.split with a one-character separator
RECURSIVE Split(_, _)
Split(s, sep) ==
    LET n == SpanLen(s, Range(s) \ {sep})
    IN  IF n = Len(s) THEN <<s>>
        ELSE <<Take(s, n)>> \o Split(Drop(s, n + 1), sep)

(* ------------------------------------------------------------------ *)
(* The two regular expressions and String.prototype.replace            *)
(* ------------------------------------------------------------------ *)

versionCodeKey == <<"v", "e", "r", "s", "i", "o", "n", "C", "o", "d", "e">>
versionNameKey == <<"v", "e", "r", "s", "i", "o", "n", "N", "a", "m", "e">>

\* the characters (?:\s|=) matches
SepChars == WhiteSpace \cup {"="}

Occurrences(text, key) ==
    {i \in 1..(Len(text) - Len(key) + 1) : SubSeq(text, i, i + Len(key) - 1) = key}

NoMatch == [found |-> FALSE, index |-> 0, prefix |-> <<>>, value |-> <<>>]

\* text.match(/(key(?:\s|=)*)(.*)/): the leftmost occurrence of key, group 1 is
\* the key and the longest run of separators after it, group 2 the rest of the
\* line.  Both stars are greedy and (.*) may be empty, so nothing backtracks.
RegexMatch(text, key) ==
    LET occ == Occurrences(text, key)
    IN  IF occ = {} THEN NoMatch
        ELSE LET i    == CHOOSE x \in occ : \A y \in occ : x <= y
                 rest == Drop(text, i + Len(key) - 1)
                 nsep == SpanLen(rest, SepChars)
                 tail == Drop(rest, nsep)
                 nval == SpanLen(tail, Range(tail) \ LineTerminators)
             IN  [found  |-> TRUE,
                  index  |-> i,
                  prefix |-> key \o Take(rest, nsep),
                  value  |-> Take(tail, nval)]

MatchedText(m) == m.prefix \o m.value
MatchEnd(m) == m.index + Len(MatchedText(m)) - 1

\* GetSubstitution for a pattern with two capture groups and no named groups:
\* $$ is $, $& the match, $ and a single quote the text after it, $n and $nn a capture (a
\* two-digit index above the group count falls back to one digit), and any
\* other $ stands for itself.  The grave accent, which with $ before it
\* stands for the text before the match, is not in the alphabet of the model.
RECURSIVE GetSubstitution(_, _, _)
GetSubstitution(template, m, text) ==
    IF template = <<>> THEN <<>>
    ELSE IF template[1] # "$" \/ Len(template) = 1
    THEN <<template[1]>> \o GetSubstitution(Drop(template, 1), m, text)
    ELSE LET c      == template[2]
             two    == Len(template) >= 3 /\ IsDigit(c) /\ IsDigit(template[3])
             idx2   == IF two THEN DigitVal(c) * 10 + DigitVal(template[3]) ELSE 0
             useTwo == two /\ idx2 <= 2
             idx    == IF useTwo THEN idx2 ELSE IF IsDigit(c) THEN DigitVal(c) ELSE 0
             used   == IF useTwo THEN 3 ELSE 2
             group  == IF idx = 1 THEN m.prefix ELSE m.value
         IN  IF c = "$"
             THEN <<"$">> \o GetSubstitution(Drop(template, 2), m, text)
             ELSE IF c = "&"
             THEN MatchedText(m) \o GetSubstitution(Drop(template, 2), m, text)
             ELSE IF c = "'"
             THEN Drop(text, MatchEnd(m)) \o GetSubstitution(Drop(template, 2), m, text)
             ELSE IF IsDigit(c)
             THEN (IF idx \in {1, 2} THEN group ELSE Take(template, used))
                  \o GetSubstitution(Drop(template, used), m, text)
             ELSE <<"$">> \o GetSubstitution(Drop(template, 1), m, text)

\* text.replace(/(key(?:\s|=)*)(.*)/, template): the first match is replaced
\* by the expanded template; a text without a match is returned as it is
RegexReplace(text, key, template) ==
    LET m == RegexMatch(text, key)
    IN  IF ~m.found THEN text
        ELSE Take(text, m.index - 1) \o GetSubstitution(template, m, text)
             \o Drop(text, MatchEnd(m))
(* ------------------------------------------------------------------ *)
(* The steps of the run as pure functions                              *)
(* ------------------------------------------------------------------ *)

\* parseInt(oldVersionCodeMatch[2].trim())
CurrentVersionCode(m) == ParseInt(Trim(m.value))
\* oldVersionNameMatch[2], trimmed, every double and single quote removed
CurrentVersionName(m) == RemoveAll(RemoveAll(Trim(m.value), "\""), "'")

\* a non-empty string is truthy
Truthy(s) == s # <<>>

ErrCodeNotFound == "Could not find 'versionCode'"
ErrNameNotFound == "Could not find 'versionName'"
ErrCodeInvalid == "'versionCode' is not a valid number"
ErrIncrementInvalid == "'versionCodeIncrementBy' is not a valid number"
ErrNameFormat == "Current versionName is not a valid Major.Minor.Patch format"

\* the increment consulted before the explicit value
ResolveVersionCode_IncrementFirst(current, specificVersionCode, versionCodeIncrementBy) ==
    IF Truthy(versionCodeIncrementBy)
    THEN LET increment == ParseInt(versionCodeIncrementBy)
         IN  IF IsNaN(increment)
             THEN [err |-> ErrIncrementInvalid, final |-> current, did |-> FALSE]
             ELSE [err |-> "", final |-> NumAdd(current, increment), did |-> TRUE]
    ELSE IF Truthy(specificVersionCode)
    THEN LET parsed == ParseInt(specificVersionCode)
         IN  IF IsNaN(parsed)
             THEN [err |-> ErrCodeInvalid, final |-> parsed, did |-> FALSE]
             ELSE [err |-> "", final |-> parsed, did |-> TRUE]
    ELSE [err |-> "", final |-> current, did |-> FALSE]

\* section 4 of the run: the final version code
ResolveVersionCode(current, specificVersionCode, versionCodeIncrementBy) ==
    IF Truthy(specificVersionCode)
    THEN LET parsed == ParseInt(specificVersionCode)
         IN  IF IsNaN(parsed)
             THEN [err |-> ErrCodeInvalid, final |-> parsed, did |-> FALSE]
             ELSE [err |-> "", final |-> parsed, did |-> TRUE]
    ELSE IF Truthy(versionCodeIncrementBy)
    THEN LET increment == ParseInt(versionCodeIncrementBy)
         IN  IF IsNaN(increment)
             THEN [err |-> ErrIncrementInvalid, final |-> current, did |-> FALSE]
             ELSE [err |-> "", final |-> NumAdd(current, increment), did |-> TRUE]
    ELSE [err |-> "", final |-> current, did |-> FALSE]

TypeMajor == <<"m", "a", "j", "o", "r">>
TypeMinor == <<"m", "i", "n", "o", "r">>
TypePatch == <<"p", "a", "t", "c", "h">>

\* currentVersionName split on the dot, each part mapped through Number
VersionParts(name) ==
    LET strs == Split(name, ".")
    IN  [i \in DOMAIN strs |-> StringToNumber(strs[i])]

\* parts.length !== 3 || parts.some(isNaN)
InvalidParts(parts) == Len(parts) # 3 \/ \E i \in DOMAIN parts : IsNaN(parts[i])

\* the switch without the resets of the lower components
Bump_NoReset(parts, type) ==
    IF type = TypeMajor THEN <<NumAdd(parts[1], Num(1)), parts[2], parts[3]>>
    ELSE IF type = TypeMinor THEN <<parts[1], NumAdd(parts[2], Num(1)), parts[3]>>
    ELSE IF type = TypePatch THEN <<parts[1], parts[2], NumAdd(parts[3], Num(1))>>
    ELSE parts

\* the switch on versionNameIncrementType.toLowerCase()
Bump(parts, type) ==
    IF type = TypeMajor THEN <<NumAdd(parts[1], Num(1)), Num(0), Num(0)>>
    ELSE IF type = TypeMinor THEN <<parts[1], NumAdd(parts[2], Num(1)), Num(0)>>
    ELSE IF type = TypePatch THEN <<parts[1], parts[2], NumAdd(parts[3], Num(1))>>
    ELSE parts

\* the template literal major.minor.patch
VersionString(parts) ==
    NumberToString(parts[1]) \o <<".">> \o NumberToString(parts[2])
        \o <<".">> \o NumberToString(parts[3])

\* the branch taken for an increment type: parse, validate, bump, compare
BumpVersionName(current, versionNameIncrementType) ==
    LET parts == VersionParts(current)
        type  == ToLowerCase(versionNameIncrementType)
        warn  == type \notin {TypeMajor, TypeMinor, TypePatch}
    IN  IF InvalidParts(parts)
        THEN [err |-> ErrNameFormat, final |-> current, did |-> FALSE, warned |-> FALSE]
        ELSE LET newVersionName == VersionString(Bump(parts, type))
             IN  IF newVersionName # current
                 THEN [err |-> "", final |-> newVersionName, did |-> TRUE,
                       warned |-> warn]
                 ELSE [err |-> "", final |-> current, did |-> FALSE, warned |-> warn]

\* the increment type consulted before the explicit name
ResolveVersionName_IncrementFirst(current, specificVersionName, versionNameIncrementType) ==
    IF Truthy(versionNameIncrementType) /\ Len(versionNameIncrementType) > 0
    THEN BumpVersionName(current, versionNameIncrementType)
    ELSE IF Truthy(specificVersionName)
    THEN [err |-> "", final |-> specificVersionName, did |-> TRUE, warned |-> FALSE]
    ELSE [err |-> "", final |-> current, did |-> FALSE, warned |-> FALSE]

\* section 5 of the run: the final version name
ResolveVersionName(current, specificVersionName, versionNameIncrementType) ==
    IF Truthy(specificVersionName)
    THEN [err |-> "", final |-> specificVersionName, did |-> TRUE, warned |-> FALSE]
    ELSE IF Truthy(versionNameIncrementType) /\ Len(versionNameIncrementType) > 0
    THEN BumpVersionName(current, versionNameIncrementType)
    ELSE [err |-> "", final |-> current, did |-> FALSE, warned |-> FALSE]

\* the test with an or for the and: either field unchanged ends the run
NoUpdates_EitherUnchanged(didCode, didName) == ~didCode \/ ~didName

\* if (!didUpdateCode && !didUpdateName)
NoUpdates(didCode, didName) == ~didCode /\ ~didName

\* the template without the reference to the first group
CodeTemplate_NoGroup(finalCode) == NumberToString(finalCode)
\* the replacement template: $1, then finalVersionCode
CodeTemplate(finalCode) == <<"$", "1">> \o NumberToString(finalCode)
\* the replacement template: $1, then finalVersionName in double quotes
NameTemplate(finalName) == <<"$", "1", "\"">> \o finalName \o <<"\"">>

\* section 6 of the run: the replacements, the code first and the name in
\* the text the first replacement produced
ApplyChangesTo(text, didCode, finalCode, didName, finalName) ==
    LET afterCode == IF didCode
                     THEN RegexReplace(text, versionCodeKey, CodeTemplate(finalCode))
                     ELSE text
    IN  IF didName
        THEN RegexReplace(afterCode, versionNameKey, NameTemplate(finalName))
        ELSE afterCode
(* ------------------------------------------------------------------ *)
(* The build files and the inputs of a run                             *)
(* ------------------------------------------------------------------ *)

SemVer(ma, mi, pa) ==
    NatToString(ma) \o <<".">> \o NatToString(mi) \o <<".">> \o NatToString(pa)
DoubleQuoted(s) == <<"\"">> \o s \o <<"\"">>
SingleQuoted(s) == <<"'">> \o s \o <<"'">>

\* the text after versionCode and its separators, up to the end of the line
CodeRaws ==
    {NatToString(c) : c \in 0..MaxCode}
    \cup {<<"9">>, <<"0", "7">>, <<"1", " ">>, <<"1", " ", "/", "/", "x">>,
          <<"x">>, <<>>}

\* the text after versionName and its separators, up to the end of the line
NameRaws ==
    {DoubleQuoted(SemVer(ma, mi, pa)) : ma, mi, pa \in 0..MaxVer}
    \cup {SingleQuoted(SemVer(1, 2, 5)), SemVer(1, 2, 5),
          DoubleQuoted(SemVer(9, 9, 9)),
          DoubleQuoted(SemVer(1, 2, 5)) \o <<" ">>,
          DoubleQuoted(SemVer(1, 2, 5)) \o <<" ", "/", "/", "x">>,
          DoubleQuoted(<<"1", ".", "0", "2", ".", "3">>),
          DoubleQuoted(<<"1", ".", ".", "2">>),
          DoubleQuoted(<<"1", ".", "2">>),
          DoubleQuoted(<<"1", ".", "2", ".", "3", ".", "4">>),
          DoubleQuoted(<<"1", ".", "x", ".", "3">>),
          DoubleQuoted(<<"-", "1", ".", "0", ".", "0">>),
          DoubleQuoted(<<>>)}

CodeLine(sep, raw) == <<" ">> \o versionCodeKey \o sep \o raw
NameLine(sep, raw) == <<" ">> \o versionNameKey \o sep \o raw
Lines3(a, b, eol) == <<"{">> \o eol \o a \o eol \o b \o eol \o <<"}">> \o eol
Gradle(codeRaw, nameRaw) ==
    Lines3(CodeLine(<<" ">>, codeRaw), NameLine(<<" ">>, nameRaw), <<"\n">>)

DefaultCode == <<"1">>
DefaultName == DoubleQuoted(SemVer(1, 0, 0))

\* layouts other than one field per line in the usual order
OtherFiles ==
    {\* a field is missing
     Lines3(<<"x">>, NameLine(<<" ">>, DefaultName), <<"\n">>),
     Lines3(CodeLine(<<" ">>, DefaultCode), <<"x">>, <<"\n">>),
     \* other separators, CRLF line ends
     Lines3(CodeLine(<<" ", "=", " ">>, DefaultCode),
            NameLine(<<" ", "=", " ">>, DefaultName), <<"\n">>),
     Lines3(CodeLine(<<>>, DefaultCode), NameLine(<<"=">>, DefaultName), <<"\n">>),
     Lines3(CodeLine(<<"\t">>, DefaultCode), NameLine(<<" ">>, DefaultName),
            <<"\r", "\n">>),
     \* the name before the code
     Lines3(NameLine(<<" ">>, DefaultName), CodeLine(<<" ">>, DefaultCode), <<"\n">>),
     \* a comment that mentions the key comes first
     <<"/", "/", " ">> \o versionCodeKey \o <<" ", "x", "\n">>
         \o Gradle(DefaultCode, DefaultName),
     <<"/", "/", " ">> \o versionCodeKey \o <<"\n">>
         \o Gradle(DefaultCode, DefaultName),
     \* the code line mentions the other key
     Lines3(CodeLine(<<" ">>, <<"1", " ", "/", "/">> \o versionNameKey),
            NameLine(<<" ">>, DefaultName), <<"\n">>),
     \* each field twice
     Gradle(DefaultCode, DefaultName) \o Gradle(<<"9">>, DoubleQuoted(SemVer(9, 9, 9))),
     \* the name at the end of the file, the line not terminated
     CodeLine(<<" ">>, DefaultCode) \o <<"\n">> \o NameLine(<<" ">>, DefaultName)}

GradleFiles ==
    {Gradle(c, n) : c \in CodeRaws, n \in {DefaultName, SemVer(1, 2, 5)}}
    \cup {Gradle(DefaultCode, n) : n \in NameRaws}
    \cup OtherFiles

\* core.getInput returns the trimmed value, the empty string for an input not given
SpecificVersionCodes == {<<>>, <<"1">>, <<"0">>, <<"4", "2">>, <<"x">>, <<"7", "x">>}
VersionCodeIncrements == {<<>>, <<"1">>, <<"0">>, <<"-", "2">>, <<"z">>}
SpecificVersionNames ==
    {<<>>, SemVer(1, 0, 0), SemVer(1, 2, 5), <<"v", "2">>, <<"$", "&">>}
IncrementTypes ==
    {<<>>, TypeMajor, <<"M", "A", "J", "O", "R">>, <<"M", "i", "n", "o", "r">>,
     TypePatch, <<"b", "o", "g", "u", "s">>}

Inputs ==
    [versionCode : SpecificVersionCodes,
     versionName : SpecificVersionNames,
     versionCodeIncrementBy : VersionCodeIncrements,
     SemanticVersioningOptionToIncrement : IncrementTypes]

(* ------------------------------------------------------------------ *)
(* The run                                                             *)
(* ------------------------------------------------------------------ *)

VARIABLES
    pc,                  \* the statement the run is at
    disk,                \* the content of the file at gradlePath
    inputs,              \* what core.getInput returns
    reads, writes,       \* calls of readFileSync and writeFileSync so far
    fileContents,
    oldVersionCodeMatch, currentVersionCode,
    oldVersionNameMatch, currentVersionName,
    finalVersionCode, didUpdateCode,
    finalVersionName, didUpdateName,
    newFileContents,
    outputs,             \* what core.setOutput has set
    warned,              \* core.warning was called
    failure              \* the message core.setFailed was given, "" if none

vars ==
    <<pc, disk, inputs, reads, writes, fileContents, oldVersionCodeMatch,
      currentVersionCode, oldVersionNameMatch, currentVersionName,
      finalVersionCode, didUpdateCode, finalVersionName, didUpdateName,
      newFileContents, outputs, warned, failure>>

Unset == [set |-> FALSE, value |-> <<>>]
SetTo(x) == [set |-> TRUE, value |-> x]

\* the state once the inputs are read (lines 9-24): gradlePath is given and
\* names a readable file, whose content is on the disk
Init ==
    /\ pc = "read"
    /\ disk \in GradleFiles
    /\ inputs \in Inputs
    /\ reads = 0
    /\ writes = 0
    /\ fileContents = <<>>
    /\ oldVersionCodeMatch = NoMatch
    /\ currentVersionCode = NaN
    /\ oldVersionNameMatch = NoMatch
    /\ currentVersionName = <<>>
    /\ finalVersionCode = NaN
    /\ didUpdateCode = FALSE
    /\ finalVersionName = <<>>
    /\ didUpdateName = FALSE
    /\ newFileContents = <<>>
    /\ outputs = [result |-> "", newVersionCode |-> Unset, newVersionName |-> Unset]
    /\ warned = FALSE
    /\ failure = ""

\* } catch (error) { core.setFailed(error.message); }
Throw(message) ==
    /\ pc' = "failed"
    /\ failure' = message

\* fs.readFileSync(gradlePath, utf8)
ReadFile ==
    /\ pc = "read"
    /\ fileContents' = disk
    /\ reads' = reads + 1
    /\ pc' = "locateCode"
    /\ UNCHANGED <<disk, inputs, writes, oldVersionCodeMatch, currentVersionCode,
                   oldVersionNameMatch, currentVersionName, finalVersionCode,
                   didUpdateCode, finalVersionName, didUpdateName, newFileContents,
                   outputs, warned, failure>>

LocateCode ==
    /\ pc = "locateCode"
    /\ oldVersionCodeMatch' = RegexMatch(fileContents, versionCodeKey)
    /\ IF ~oldVersionCodeMatch'.found
       THEN /\ Throw(ErrCodeNotFound)
            /\ UNCHANGED currentVersionCode
       ELSE /\ currentVersionCode' = CurrentVersionCode(oldVersionCodeMatch')
            /\ pc' = "locateName"
            /\ UNCHANGED failure
    /\ UNCHANGED <<disk, inputs, reads, writes, fileContents, oldVersionNameMatch,
                   currentVersionName, finalVersionCode, didUpdateCode,
                   finalVersionName, didUpdateName, newFileContents, outputs, warned>>

LocateName ==
    /\ pc = "locateName"
    /\ oldVersionNameMatch' = RegexMatch(fileContents, versionNameKey)
    /\ IF ~oldVersionNameMatch'.found
       THEN /\ Throw(ErrNameNotFound)
            /\ UNCHANGED currentVersionName
       ELSE /\ currentVersionName' = CurrentVersionName(oldVersionNameMatch')
            /\ pc' = "resolveCode"
            /\ UNCHANGED failure
    /\ UNCHANGED <<disk, inputs, reads, writes, fileContents, oldVersionCodeMatch,
                   currentVersionCode, finalVersionCode, didUpdateCode,
                   finalVersionName, didUpdateName, newFileContents, outputs, warned>>

DetermineVersionCode ==
    /\ pc = "resolveCode"
    /\ LET r == ResolveVersionCode(currentVersionCode, inputs.versionCode,
                                   inputs.versionCodeIncrementBy)
       IN  /\ finalVersionCode' = r.final
           /\ didUpdateCode' = r.did
           /\ IF r.err # ""
              THEN Throw(r.err)
              ELSE pc' = "resolveName" /\ UNCHANGED failure
    /\ UNCHANGED <<disk, inputs, reads, writes, fileContents, oldVersionCodeMatch,
                   currentVersionCode, oldVersionNameMatch, currentVersionName,
                   finalVersionName, didUpdateName, newFileContents, outputs, warned>>

DetermineVersionName ==
    /\ pc = "resolveName"
    /\ LET r == ResolveVersionName(currentVersionName, inputs.versionName,
                                   inputs.SemanticVersioningOptionToIncrement)
       IN  /\ finalVersionName' = r.final
           /\ didUpdateName' = r.did
           /\ warned' = r.warned
           /\ IF r.err # ""
              THEN Throw(r.err)
              ELSE pc' = "decide" /\ UNCHANGED failure
    /\ UNCHANGED <<disk, inputs, reads, writes, fileContents, oldVersionCodeMatch,
                   currentVersionCode, oldVersionNameMatch, currentVersionName,
                   finalVersionCode, didUpdateCode, newFileContents, outputs>>

\* the early return: the result output is set to No changes made
NoChangeExit ==
    /\ pc = "decide"
    /\ NoUpdates(didUpdateCode, didUpdateName)
    /\ outputs' = [outputs EXCEPT !.result = "No changes made"]
    /\ pc' = "done"
    /\ UNCHANGED <<disk, inputs, reads, writes, fileContents, oldVersionCodeMatch,
                   currentVersionCode, oldVersionNameMatch, currentVersionName,
                   finalVersionCode, didUpdateCode, finalVersionName, didUpdateName,
                   newFileContents, warned, failure>>

ApplyChanges ==
    /\ pc = "decide"
    /\ ~NoUpdates(didUpdateCode, didUpdateName)
    /\ newFileContents' = ApplyChangesTo(fileContents, didUpdateCode, finalVersionCode,
                                         didUpdateName, finalVersionName)
    /\ pc' = "write"
    /\ UNCHANGED <<disk, inputs, reads, writes, fileContents, oldVersionCodeMatch,
                   currentVersionCode, oldVersionNameMatch, currentVersionName,
                   finalVersionCode, didUpdateCode, finalVersionName, didUpdateName,
                   outputs, warned, failure>>

\* fs.writeFileSync(gradlePath, newFileContents, utf8)
WriteFile ==
    /\ pc = "write"
    /\ disk' = newFileContents
    /\ writes' = writes + 1
    /\ pc' = "outputs"
    /\ UNCHANGED <<inputs, reads, fileContents, oldVersionCodeMatch,
                   currentVersionCode, oldVersionNameMatch, currentVersionName,
                   finalVersionCode, didUpdateCode, finalVersionName, didUpdateName,
                   newFileContents, outputs, warned, failure>>

SetOutputs ==
    /\ pc = "outputs"
    /\ outputs' = [result |-> "Done",
                   newVersionCode |-> IF didUpdateCode THEN SetTo(finalVersionCode)
                                      ELSE outputs.newVersionCode,
                   newVersionName |-> IF didUpdateName THEN SetTo(finalVersionName)
                                      ELSE outputs.newVersionName]
    /\ pc' = "done"
    /\ UNCHANGED <<disk, inputs, reads, writes, fileContents, oldVersionCodeMatch,
                   currentVersionCode, oldVersionNameMatch, currentVersionName,
                   finalVersionCode, didUpdateCode, finalVersionName, didUpdateName,
                   newFileContents, warned, failure>>

Next ==
    \/ ReadFile
    \/ LocateCode
    \/ LocateName
    \/ DetermineVersionCode
    \/ DetermineVersionName
    \/ NoChangeExit
    \/ ApplyChanges
    \/ WriteFile
    \/ SetOutputs

Spec == Init /\ [][Next]_vars
(* ------------------------------------------------------------------ *)
(* Vocabulary of the properties                                        *)
(* ------------------------------------------------------------------ *)

\* the run is past the version-code section without a failure in it
PastCode ==
    \/ pc \in {"resolveName", "decide", "write", "outputs", "done"}
    \/ pc = "failed" /\ failure = ErrNameFormat
\* the run is past the version-name section without a failure
PastName == pc \in {"decide", "write", "outputs", "done"}
\* the file has been written
Written == writes > 0

NoOutputs == [result |-> "", newVersionCode |-> Unset, newVersionName |-> Unset]

\* s has characters and none of them is a digit
NoDigits(s) == s # <<>> /\ \A i \in DOMAIN s : ~IsDigit(s[i])

\* s is one or more digits
IsDigitString(s) == s # <<>> /\ \A i \in DOMAIN s : IsDigit(s[i])
\* s is digits with an optional sign before them
IsSignedDigits(s) ==
    \/ IsDigitString(s)
    \/ Len(s) > 1 /\ s[1] \in {"+", "-"} /\ IsDigitString(Tail(s))
\* s is the decimal text of an integer, and the integer it is the text of
IsIntegerText(s) == IsDigitString(s) \/ (Len(s) > 1 /\ s[1] = "-" /\ IsDigitString(Tail(s)))
IntegerOf(s) == IF s[1] = "-" THEN 0 - DigitsValue(Tail(s), 10) ELSE DigitsValue(s, 10)
\* name is exactly three dot-separated integer components
ThreeIntegerComponents(name) ==
    LET p == Split(name, ".")
    IN  Len(p) = 3 /\ \A i \in DOMAIN p : IsSignedDigits(p[i])
\* name is major.minor.patch of non-negative integers
ValidSemVer(name) ==
    LET p == Split(name, ".")
    IN  Len(p) = 3 /\ \A i \in DOMAIN p : IsDigitString(p[i])
Component(name, i) == DigitsValue(Split(name, ".")[i], 10)
\* name is the canonical text of its three components
CanonicalSemVer(name) ==
    /\ ValidSemVer(name)
    /\ name = SemVer(Component(name, 1), Component(name, 2), Component(name, 3))

IncrementType == ToLowerCase(inputs.SemanticVersioningOptionToIncrement)
KnownType == IncrementType \in {TypeMajor, TypeMinor, TypePatch}

\* the number of the line that holds position i of text
LineOf(text, i) == 1 + Cardinality({j \in 1..(i - 1) : text[j] = "\n"})
\* the lines a match covers: from its key to its value
MatchLines(text, m) == LineOf(text, m.index)..LineOf(text, m.index + Len(m.prefix))
\* text with the value of match m replaced by value
WithValue(text, m, value) ==
    Take(text, m.index - 1) \o m.prefix \o value \o Drop(text, MatchEnd(m))
RemoveQuotes(text) == RemoveAll(RemoveAll(text, "\""), "'")

(* ------------------------------------------------------------------ *)
(* C1                                                                  *)
(* ------------------------------------------------------------------ *)

\* C1: the file is read once and written at most once; the one write comes
\* after both fields are resolved and stores the full resulting text; a run
\* that ends with neither field changed has written nothing and reports
\* No changes made; a run that ends with a field changed has written exactly
\* once and reports Done.
C1_ReadOnceWriteAtMostOnce ==
    /\ reads = (IF pc = "read" THEN 0 ELSE 1)
    /\ writes \in {0, 1}
    /\ Written => /\ pc \in {"outputs", "done"}
                  /\ disk = newFileContents
                  /\ didUpdateCode \/ didUpdateName
    /\ ~Written => (pc = "read" \/ disk = fileContents)
    /\ (pc = "done" /\ ~didUpdateCode /\ ~didUpdateName)
         => writes = 0 /\ outputs.result = "No changes made"
    /\ (pc = "done" /\ (didUpdateCode \/ didUpdateName))
         => writes = 1 /\ outputs.result = "Done"
    /\ pc = "decide" => outputs.result = ""

C1_Witness ==
    /\ pc = "done"
    /\ writes = 1
    /\ outputs.result = "Done"
    /\ didUpdateCode /\ ~didUpdateName
    /\ disk # fileContents

(* ------------------------------------------------------------------ *)
(* C2                                                                  *)
(* ------------------------------------------------------------------ *)

\* C2: a run that fails has written nothing, the file is as it was read and
\* no output is set, also when the other field was already resolved as
\* changed; and a missing field, an explicit counter or increment with no
\* digit in it, or a current name without three components under a
\* requested increment, does make the run fail.
C2_FailureLeavesFile ==
    /\ (pc = "failed") = (failure # "")
    /\ pc = "failed" => writes = 0 /\ disk = fileContents /\ outputs = NoOutputs
    /\ pc \notin {"read", "locateCode", "failed"}
         => Occurrences(fileContents, versionCodeKey) # {}
    /\ pc \notin {"read", "locateCode", "locateName", "failed"}
         => Occurrences(fileContents, versionNameKey) # {}
    /\ (PastCode /\ pc # "failed")
         => /\ ~NoDigits(inputs.versionCode)
            /\ inputs.versionCode = <<>> => ~NoDigits(inputs.versionCodeIncrementBy)
    /\ (PastName /\ inputs.versionName = <<>>
          /\ inputs.SemanticVersioningOptionToIncrement # <<>>)
         => Len(Split(currentVersionName, ".")) = 3

C2_Witness ==
    /\ pc = "failed"
    /\ failure = ErrNameFormat
    /\ didUpdateCode
    /\ finalVersionCode # currentVersionCode
    /\ disk = fileContents

(* ------------------------------------------------------------------ *)
(* C3                                                                  *)
(* ------------------------------------------------------------------ *)

\* C3: for an integer current counter c, an explicit override that is the
\* text of an integer v gives v and changed, whatever the increment; else an
\* increment that is the text of an integer d gives c + d and changed, with
\* no lower bound; else, with neither given, c and not changed.
C3_CounterPrecedence ==
    (PastCode /\ ~IsNaN(currentVersionCode)) =>
        IF IsIntegerText(inputs.versionCode)
        THEN /\ finalVersionCode = Num(IntegerOf(inputs.versionCode))
             /\ didUpdateCode
        ELSE IF inputs.versionCode = <<>> /\ IsIntegerText(inputs.versionCodeIncrementBy)
        THEN /\ finalVersionCode
                  = Num(currentVersionCode.v + IntegerOf(inputs.versionCodeIncrementBy))
             /\ didUpdateCode
        ELSE IF inputs.versionCode = <<>> /\ inputs.versionCodeIncrementBy = <<>>
        THEN finalVersionCode = currentVersionCode /\ ~didUpdateCode
        ELSE TRUE

C3_Witness ==
    /\ pc = "done"
    /\ inputs.versionCode = <<>>
    /\ inputs.versionCodeIncrementBy = <<"-", "2">>
    /\ currentVersionCode = Num(1)
    /\ finalVersionCode = Num(-1)
    /\ didUpdateCode
    /\ RegexMatch(disk, versionCodeKey).value = <<"-", "1">>

(* ------------------------------------------------------------------ *)
(* C4                                                                  *)
(* ------------------------------------------------------------------ *)

\* C4: a non-empty explicit version name is the result as given, marked
\* changed, with the increment type ignored and the current name never
\* checked, so the name section cannot fail; with neither an override nor an
\* increment type the result is the current name, not changed.
C4_NamePrecedence ==
    /\ failure = ErrNameFormat
         => /\ inputs.versionName = <<>>
            /\ inputs.SemanticVersioningOptionToIncrement # <<>>
    /\ (PastName /\ inputs.versionName # <<>>)
         => /\ finalVersionName = inputs.versionName
            /\ didUpdateName
            /\ ~warned
    /\ (PastName /\ inputs.versionName = <<>>
          /\ inputs.SemanticVersioningOptionToIncrement = <<>>)
         => /\ finalVersionName = currentVersionName
            /\ ~didUpdateName

C4_Witness ==
    /\ pc = "done"
    /\ inputs.versionName = <<"v", "2">>
    /\ inputs.SemanticVersioningOptionToIncrement = TypeMajor
    /\ ~ThreeIntegerComponents(currentVersionName)
    /\ finalVersionName = <<"v", "2">>
    /\ didUpdateName

(* ------------------------------------------------------------------ *)
(* C5                                                                  *)
(* ------------------------------------------------------------------ *)

\* C5: with no explicit name and a current name ma.mi.pa of non-negative
\* integers, the type, compared without regard to case, selects one step:
\* major gives (ma+1).0.0, minor ma.(mi+1).0, patch ma.mi.(pa+1); the result
\* is the canonical text of that and the name is marked changed.
C5_SingleBump ==
    /\ (failure = ErrNameFormat) => ~ValidSemVer(currentVersionName)
    /\ (PastName /\ inputs.versionName = <<>> /\ KnownType
          /\ ValidSemVer(currentVersionName))
         => LET ma == Component(currentVersionName, 1)
                mi == Component(currentVersionName, 2)
                pa == Component(currentVersionName, 3)
            IN  /\ didUpdateName
                /\ IncrementType = TypeMajor => finalVersionName = SemVer(ma + 1, 0, 0)
                /\ IncrementType = TypeMinor => finalVersionName = SemVer(ma, mi + 1, 0)
                /\ IncrementType = TypePatch => finalVersionName = SemVer(ma, mi, pa + 1)

C5_Witness ==
    /\ pc = "done"
    /\ inputs.versionName = <<>>
    /\ inputs.SemanticVersioningOptionToIncrement = <<"M", "i", "n", "o", "r">>
    /\ currentVersionName = SemVer(9, 9, 9)
    /\ finalVersionName = SemVer(9, 10, 0)
    /\ didUpdateName

(* ------------------------------------------------------------------ *)
(* C6                                                                  *)
(* ------------------------------------------------------------------ *)

UnknownTypeRequested ==
    /\ PastName
    /\ inputs.versionName = <<>>
    /\ inputs.SemanticVersioningOptionToIncrement # <<>>
    /\ ~KnownType
    /\ ThreeIntegerComponents(currentVersionName)

\* C6: an increment type other than major, minor and patch, with a current
\* name of three integer components, leaves the name not changed and its text
\* in the file as it was, and the run ends Done if the counter changed and
\* No changes made if not.
C6_UnknownTypeIsNoOp ==
    UnknownTypeRequested =>
        /\ ~didUpdateName
        /\ finalVersionName = currentVersionName
        /\ warned
        /\ pc = "done" =>
             /\ outputs.result = (IF didUpdateCode THEN "Done" ELSE "No changes made")
             /\ RegexMatch(disk, versionNameKey).value = oldVersionNameMatch.value

(* ------------------------------------------------------------------ *)
(* C7                                                                  *)
(* ------------------------------------------------------------------ *)

\* C7: with an increment type and no explicit name, the run goes on to the
\* increment only for a current name of exactly three dot-separated integer
\* components, and fails with the format error for every other name.
C7_MalformedNameFails ==
    /\ (PastName /\ inputs.versionName = <<>>
          /\ inputs.SemanticVersioningOptionToIncrement # <<>>)
         => ThreeIntegerComponents(currentVersionName)
    /\ failure = ErrNameFormat => ~ThreeIntegerComponents(currentVersionName)

(* ------------------------------------------------------------------ *)
(* C8                                                                  *)
(* ------------------------------------------------------------------ *)

\* the lines of the original text that belong to a changed field
ChangedLines ==
    (IF didUpdateCode THEN MatchLines(fileContents, oldVersionCodeMatch) ELSE {})
    \cup (IF didUpdateName THEN MatchLines(fileContents, oldVersionNameMatch) ELSE {})

\* C8: after the write, every line other than the matched line of a changed
\* field is as it was; a changed field keeps its prefix, a changed counter
\* is the bare integer and a changed name is the final name in double quotes;
\* a field not marked changed keeps its prefix and its value text.
C8_OnlyChangedFieldsRewritten ==
    (Written /\ pc = "done") =>
        LET code     == RegexMatch(disk, versionCodeKey)
            name     == RegexMatch(disk, versionNameKey)
            oldLines == Split(fileContents, "\n")
            newLines == Split(disk, "\n")
        IN  /\ code.found /\ code.prefix = oldVersionCodeMatch.prefix
            /\ name.found /\ name.prefix = oldVersionNameMatch.prefix
            /\ IF didUpdateCode
               THEN /\ ~IsNaN(finalVersionCode)
                    /\ code.value = NumberToString(finalVersionCode)
               ELSE code.value = oldVersionCodeMatch.value
            /\ IF didUpdateName
               THEN name.value = DoubleQuoted(finalVersionName)
               ELSE name.value = oldVersionNameMatch.value
            /\ Len(newLines) = Len(oldLines)
            /\ \A k \in DOMAIN oldLines \ ChangedLines : newLines[k] = oldLines[k]

(* ------------------------------------------------------------------ *)
(* C9                                                                  *)
(* ------------------------------------------------------------------ *)

\* the run wrote each changed field with the value it had, the counter
\* having an integer value
RoundTrip ==
    /\ pc = "done"
    /\ Written
    /\ ~IsNaN(currentVersionCode)
    /\ didUpdateCode => finalVersionCode = currentVersionCode
    /\ didUpdateName => finalVersionName = currentVersionName

\* the text of each changed field was the canonical text of its value
CanonicalRaw ==
    /\ didUpdateCode =>
         oldVersionCodeMatch.value = NumberToString(currentVersionCode)
    /\ didUpdateName =>
         /\ CanonicalSemVer(currentVersionName)
         /\ oldVersionNameMatch.value
              \in {currentVersionName, DoubleQuoted(currentVersionName),
                   SingleQuoted(currentVersionName)}

\* C9 as stated: writing each changed field with its own current value gives
\* back the text that was read, but for the quotes of the name.
C9_RoundTrip ==
    RoundTrip =>
        IF didUpdateName
        THEN RemoveQuotes(disk) = RemoveQuotes(fileContents)
        ELSE disk = fileContents

\* C9 as amended: writing each changed field with its own current value
\* gives back the text that was read when the text of the counter was the
\* decimal text of its integer and the text of the name a canonical
\* major.minor.patch, bare or in one pair of quotes; the only difference is
\* that the name is then in double quotes.
C9_RoundTripCanonical ==
    (RoundTrip /\ CanonicalRaw) =>
        disk = (IF didUpdateName
                THEN WithValue(fileContents, oldVersionNameMatch,
                               DoubleQuoted(currentVersionName))
                ELSE fileContents)

C9_Witness ==
    /\ RoundTrip
    /\ CanonicalRaw
    /\ didUpdateCode
    /\ didUpdateName
    /\ oldVersionNameMatch.value = SingleQuoted(SemVer(1, 2, 5))
    /\ disk # fileContents

(* ------------------------------------------------------------------ *)
(* C10                                                                 *)
(* ------------------------------------------------------------------ *)

\* C10: after a run that ends Done, an output is set for exactly the fields
\* marked changed, and locating a changed field in the written text gives the
\* value reported for it, the counter an integer, on the line where the
\* field was located at the start of the run.
C10_OutputsAgreeWithFile ==
    (pc = "done" /\ outputs.result = "Done") =>
        LET code == RegexMatch(disk, versionCodeKey)
            name == RegexMatch(disk, versionNameKey)
        IN  /\ outputs.newVersionCode.set = didUpdateCode
            /\ outputs.newVersionName.set = didUpdateName
            /\ didUpdateCode =>
                 /\ code.found
                 /\ ~IsNaN(outputs.newVersionCode.value)
                 /\ CurrentVersionCode(code) = outputs.newVersionCode.value
                 /\ LineOf(disk, code.index)
                      = LineOf(fileContents, oldVersionCodeMatch.index)
            /\ didUpdateName =>
                 /\ name.found
                 /\ CurrentVersionName(name) = outputs.newVersionName.value
                 /\ LineOf(disk, name.index)
                      = LineOf(fileContents, oldVersionNameMatch.index)
====
